---- MODULE Spec2Model ----
(***************************************************************************)
(* Model of streamlit_app.py: the NBA shot-evolution dashboard.            *)
(*                                                                         *)
(* Three specifications share the variables of one script run:             *)
(*   Spec      the page: refresh buttons, the three memoised loaders, the  *)
(*             three sequential fetch loops, the cache files, the charts;  *)
(*   NormSpec  process_league_data / process_player_data applied to every  *)
(*             raw table of a bounded family (a cache file may hold any    *)
(*             table);                                                     *)
(*   FnSpec    season_str, get_season_list, the half-court filter and the  *)
(*             3-point line of create_shot_chart, and the shot statistics  *)
(*             of main, each called on its own.                            *)
(*                                                                         *)
(* Strings that the code builds or parses (season labels) are sequences of *)
(* one-character strings; a cell of a table read from CSV is a record      *)
(* [kind, v]; a float produced by a division is a record [kind, num, den]; *)
(* the floats of the arc are fixed-point integers.                         *)
(***************************************************************************)
EXTENDS Integers, Sequences, FiniteSets, TLC

(* ------------------------------ bounds --------------------------------- *)
\* SEASONS is get_season_list(2000, 2024) in the program; the model keeps
\* the window FirstYear..LastYear of it (it straddles Curry's first season).
FirstYear == 2008
LastYear == 2009
\* how many entries of PLAYER_NAMES the model keeps
NumPlayers == 2
\* team rows of a raw league table, rows of a raw player table
MaxRows == 2
MaxPlayerRows == 2
\* the positive count a cell of a raw table can hold
MaxFga == 1
\* helpers called on their own take years 0..LowYears and
\* (FirstYear - YearSpan)..(FirstYear + 2)
LowYears == 12
YearSpan == 10
\* shot events of a shot table handed to create_shot_chart on its own
MaxShots == 3

(* --------------------------- python helpers ---------------------------- *)
DigitChar == <<"0", "1", "2", "3", "4", "5", "6", "7", "8", "9">>

DigitVal(c) == CHOOSE d \in 0..9 : DigitChar[d + 1] = c

\* str(n) of a non-negative int
RECURSIVE str(_)
str(n) == IF n < 10 THEN <<DigitChar[n + 1]>>
          ELSE str(n \div 10) \o <<DigitChar[(n % 10) + 1]>>

\* int(s) of a string of digits
RECURSIVE IntTo(_, _)
IntTo(s, i) == IF i = 0 THEN 0 ELSE 10 * IntTo(s, i - 1) + DigitVal(s[i])

int(s) == IntTo(s, Len(s))

\* s[-k:]
Tail_k(s, k) == IF Len(s) <= k THEN s ELSE SubSeq(s, Len(s) - k + 1, Len(s))

\* s[:k]
Head_k(s, k) == IF Len(s) <= k THEN s ELSE SubSeq(s, 1, k)

\* code point order of the characters a season label is made of
CharRank(c) == IF c = "-" THEN 0 ELSE DigitVal(c) + 1

\* a < b for strings (lexicographic, as pandas sorts group keys)
StrLess(a, b) ==
    \E k \in 1..Len(b) :
        /\ \A j \in 1..(k - 1) : j <= Len(a) /\ a[j] = b[j]
        /\ \/ k > Len(a)
           \/ k <= Len(a) /\ CharRank(a[k]) < CharRank(b[k])

RECURSIVE SumTo(_, _)
SumTo(s, i) == IF i = 0 THEN 0 ELSE SumTo(s, i - 1) + s[i]

SeqSum(s) == SumTo(s, Len(s))

RECURSIVE ConcatTo(_, _)
ConcatTo(ss, i) == IF i = 0 THEN <<>> ELSE ConcatTo(ss, i - 1) \o ss[i]

Concat(ss) == ConcatTo(ss, Len(ss))

\* the elements of S in increasing order
SortSet(S, Less(_, _)) ==
    [k \in 1..Cardinality(S) |->
        CHOOSE x \in S : Cardinality({y \in S : Less(y, x)}) = k - 1]

\* Optional values: Python's None and "a value"
None == [some |-> FALSE, tbl |-> <<>>]
Some(t) == [some |-> TRUE, tbl |-> t]

(* ------------------------------ constants ------------------------------ *)
season_str(start_year) ==
    str(start_year) \o <<"-">> \o Tail_k(str(start_year + 1), 2)

\* faulty variant of get_season_list: range(start, end) leaves the end out
get_season_list_exclusive(start, end) ==
    [i \in 1..(IF end > start THEN end - start ELSE 0)
        |-> season_str(start + i - 1)]

get_season_list(start, end) ==
    [i \in 1..(IF end >= start THEN end - start + 1 ELSE 0)
        |-> season_str(start + i - 1)]

SEASONS == get_season_list(FirstYear, LastYear)

ZONE_ORDER == <<"Restricted Area", "In The Paint (Non-RA)", "Mid-Range",
                "Left Corner 3", "Right Corner 3", "Above the Break 3",
                "Backcourt">>

\* the zone names in the order a sorted group-by lists them
ZoneSorted == <<"Above the Break 3", "Backcourt", "In The Paint (Non-RA)",
                "Left Corner 3", "Mid-Range", "Restricted Area",
                "Right Corner 3">>

ZoneRank(z) == CHOOSE i \in 1..Len(ZoneSorted) : ZoneSorted[i] = z

AllPlayerNames == <<"Stephen Curry", "James Harden", "LeBron James",
                    "Kevin Durant", "DeMar DeRozan">>

PLAYER_NAMES == SubSeq(AllPlayerNames, 1, NumPlayers)

(* ------------------------------ raw cells ------------------------------ *)
Num(n) == [kind |-> "num", v |-> n]
NaN == [kind |-> "nan", v |-> 0]
Text == [kind |-> "text", v |-> 0]

\* float(x): the value, or the exception it raises
float(x) ==
    CASE x.kind = "num" -> [exc |-> "", val |-> x]
      [] x.kind = "nan" -> [exc |-> "", val |-> NaN]
      [] x.kind = "text" -> [exc |-> "ValueError", val |-> NaN]
      [] OTHER -> [exc |-> "TypeError", val |-> NaN]

\* a / b on floats
FloatDiv(a, b) ==
    IF b # 0 THEN [kind |-> "ratio", num |-> a, den |-> b]
    ELSE IF a = 0 THEN [kind |-> "nan", num |-> 0, den |-> 0]
    ELSE [kind |-> "inf", num |-> a, den |-> 0]

(* ------------------------- league normalization ------------------------ *)
\* A raw league table is a sequence of rows [Unnamed0, Unnamed1, SEASON, fga]:
\* fga maps each zone whose '<zone>.1' column the table has to the row's cell.

zone_names == ZONE_ORDER

\* faulty variant of IsHeaderRow: only the first column is tested
IsHeaderRow_first(row) == row.Unnamed0 = "TEAM_ID"

IsHeaderRow(row) == row.Unnamed0 = "TEAM_ID" \/ row.Unnamed1 = "TEAM_NAME"

CaughtExceptions == {"ValueError", "TypeError"}

\* faulty variant of FgaValid: the test fga >= 0 is left out
FgaValid_any(fga) == fga.kind = "num"

\* faulty variant of FgaValid: the test pd.notna(fga) is left out
FgaValid_nan(fga) == fga.kind \in {"num", "nan"} /\ fga.v >= 0

FgaValid(fga) == fga.kind = "num" /\ fga.v >= 0

\* one pass of the inner loop: the record appended, or the exception that escapes
ZoneStep(row, zone) ==
    IF zone \notin DOMAIN row.fga THEN [exc |-> "", recs |-> <<>>]
    ELSE LET f == float(row.fga[zone]) IN
         IF f.exc # ""
         THEN [exc |-> IF f.exc \in CaughtExceptions THEN "" ELSE f.exc,
               recs |-> <<>>]
         ELSE IF FgaValid(f.val)
         THEN [exc |-> "",
               recs |-> <<[SEASON |-> row.SEASON, TEAM_NAME |-> row.Unnamed1,
                           SHOT_ZONE_BASIC |-> zone, FGA |-> f.val.v]>>]
         ELSE [exc |-> "", recs |-> <<>>]

RowSteps(row) ==
    IF IsHeaderRow(row) THEN <<>>
    ELSE [k \in 1..Len(zone_names) |-> ZoneStep(row, zone_names[k])]

\* every (row, zone) step of the table, in loop order
AllSteps(df) == Concat([i \in 1..Len(df) |-> RowSteps(df[i])])

LeagueRecords(df) ==
    LET st == AllSteps(df) IN Concat([i \in 1..Len(st) |-> st[i].recs])

LeagueEscaped(df) ==
    LET st == AllSteps(df) IN \E i \in 1..Len(st) : st[i].exc # ""

KeyLess(a, b) ==
    \/ StrLess(a[1], b[1])
    \/ a[1] = b[1] /\ ZoneRank(a[2]) < ZoneRank(b[2])

\* groupby(['SEASON', 'SHOT_ZONE_BASIC'], as_index=False)['FGA'].sum()
GroupSeasonZone(recs) ==
    LET keys == {<<recs[i].SEASON, recs[i].SHOT_ZONE_BASIC>> : i \in 1..Len(recs)}
        ks == SortSet(keys, KeyLess)
        FgaOf(k) == [i \in 1..Len(recs) |->
                        IF <<recs[i].SEASON, recs[i].SHOT_ZONE_BASIC>> = k
                        THEN recs[i].FGA ELSE 0]
    IN [j \in 1..Len(ks) |->
          [SEASON |-> ks[j][1], SHOT_ZONE_BASIC |-> ks[j][2],
           FGA |-> SeqSum(FgaOf(ks[j]))]]

\* groupby('SEASON')['FGA'].transform('sum')
SeasonTotal(tbl, season) ==
    SeqSum([i \in 1..Len(tbl) |-> IF tbl[i].SEASON = season THEN tbl[i].FGA ELSE 0])

LeagueShares(agg) ==
    [j \in 1..Len(agg) |->
        LET total == SeasonTotal(agg, agg[j].SEASON) IN
        [SEASON |-> agg[j].SEASON, SHOT_ZONE_BASIC |-> agg[j].SHOT_ZONE_BASIC,
         FGA |-> agg[j].FGA, TOTAL_FGA_SEASON |-> total,
         FGA_SHARE |-> FloatDiv(agg[j].FGA, total)]]

\* [raised, ret, arg]: ret is None or Some(table); arg is the table the
\* caller passed, as the call leaves it (the rows are only read)
process_league_data(df_raw) ==
    IF ~df_raw.some THEN [raised |-> FALSE, ret |-> None, arg |-> df_raw]
    ELSE IF LeagueEscaped(df_raw.tbl)
    THEN [raised |-> TRUE, ret |-> None, arg |-> df_raw]
    ELSE LET recs == LeagueRecords(df_raw.tbl) IN
         IF Len(recs) = 0 THEN [raised |-> FALSE, ret |-> None, arg |-> df_raw]
         ELSE [raised |-> FALSE,
               ret |-> Some(LeagueShares(GroupSeasonZone(recs))),
               arg |-> df_raw]

(* ------------------------- player normalization ------------------------ *)
\* A raw player table is a sequence of rows
\* [PLAYER_NAME, SEASON_ID, SHOT_ZONE_BASIC, FGA, FGM].

PlayerSeasonTotal(tbl, name, season) ==
    SeqSum([i \in 1..Len(tbl) |->
              IF tbl[i].PLAYER_NAME = name /\ tbl[i].SEASON_ID = season
              THEN tbl[i].FGA ELSE 0])

\* rename(columns={'SEASON_ID': 'SEASON'}) and the two added columns
PlayerShares(t) ==
    [i \in 1..Len(t) |->
        LET total == PlayerSeasonTotal(t, t[i].PLAYER_NAME, t[i].SEASON_ID) IN
        [PLAYER_NAME |-> t[i].PLAYER_NAME, SEASON |-> t[i].SEASON_ID,
         SHOT_ZONE_BASIC |-> t[i].SHOT_ZONE_BASIC,
         FGA |-> t[i].FGA, FGM |-> t[i].FGM,
         TOTAL_FGA_PLAYER_SEASON |-> total,
         FGA_SHARE |-> FloatDiv(t[i].FGA, total)]]

\* faulty variant of process_player_data: without .copy() the rename and
\* the added columns land in the caller's table
process_player_data_inplace(df_raw) ==
    IF ~df_raw.some THEN [raised |-> FALSE, ret |-> None, arg |-> df_raw]
    ELSE [raised |-> FALSE, ret |-> Some(PlayerShares(df_raw.tbl)),
          arg |-> Some(PlayerShares(df_raw.tbl))]

\* [raised, ret, arg]: the work is done on df_players_raw.copy(), so arg,
\* the caller's table after the call, is the table passed
process_player_data(df_raw) ==
    IF ~df_raw.some THEN [raised |-> FALSE, ret |-> None, arg |-> df_raw]
    ELSE [raised |-> FALSE, ret |-> Some(PlayerShares(df_raw.tbl)),
          arg |-> df_raw]

(* ------------------------------- state --------------------------------- *)
VARIABLES
    pc,              \* where the script run stands
    directory,       \* full names static_players.get_players() lists
    files,           \* the three cache files: None (absent) or Some(table)
    memo,            \* st.cache_data entries of the loaders and fetchers
    df_league_raw, df_league, df_players_raw, df_players, df_curry_shots,
    loc,             \* locals of the fetch loop in progress
    events,          \* upstream calls, sleeps and cache writes, in order
    served,          \* how the latest load of each dataset was answered
    view,            \* what the page shows for the three charts
    raised,          \* an exception escaped
    call,            \* a helper called on its own: [fn, args]
    ret              \* what that call gave: [exc, val]

vars == <<pc, directory, files, memo, df_league_raw, df_league, df_players_raw,
          df_players, df_curry_shots, loc, events, served, view, raised,
          call, ret>>

Datasets == {"league", "player", "curry"}

CachedFns == {"load_league_data", "fetch_league_shot_data",
              "load_player_data", "fetch_player_shot_data",
              "load_curry_shotchart_data", "fetch_curry_shotchart_data"}

NoEntry == [set |-> FALSE, val |-> None]
Entry(v) == [set |-> TRUE, val |-> v]

NoLocals == [p |-> 0, i |-> 0, frames |-> <<>>, player_season_frames |-> <<>>]
NotServed == [how |-> "none", file_existed |-> FALSE]
NoView == [chart1 |-> "none", chart2 |-> "none", chart3 |-> "none"]
NoCall == [fn |-> "none", args |-> <<>>]
NoRet == [exc |-> "", val |-> <<>>]

(* --------------------- raw tables a cache file may hold ---------------- *)
\* zone columns of the raw tables of NormSpec
InputZones == {"Restricted Area", "Above the Break 3"}

NormSeasons == {season_str(FirstYear), season_str(FirstYear + 1)}

\* a negative count, zero, a positive count, a missing cell, a text cell
LeagueCells == {Num(-1), Num(0), Num(MaxFga), NaN, Text}

TeamRows ==
    [Unnamed0 : {"1610612744"}, Unnamed1 : {"Golden State Warriors"},
     SEASON : NormSeasons, fga : [InputZones -> LeagueCells]]

\* the second header line of the CSV, read back as a data row
ArtifactCells == {[z \in InputZones |-> c] : c \in LeagueCells}

ArtifactRows ==
    [Unnamed0 : {"TEAM_ID", "1610612744"}, Unnamed1 : {"TEAM_NAME"},
     SEASON : NormSeasons, fga : ArtifactCells]
    \cup
    [Unnamed0 : {"TEAM_ID"}, Unnamed1 : {"Golden State Warriors"},
     SEASON : NormSeasons, fga : ArtifactCells]

\* rows in season order, as the fetch loop concatenates them
SeasonSorted(t) ==
    \A i \in 1..(Len(t) - 1) : ~StrLess(t[i + 1].SEASON, t[i].SEASON)

\* tables of up to max rows; only the first row can be the header artifact
LeagueTables(max) ==
    {<<>>} \cup
    UNION {{t \in [1..n -> TeamRows \cup ArtifactRows] :
              /\ SeasonSorted(t)
              /\ \A i \in 2..n : t[i] \in TeamRows} : n \in 1..max}

PlayerRows ==
    UNION {[PLAYER_NAME : {"Stephen Curry", "James Harden"},
            SEASON_ID : NormSeasons, SHOT_ZONE_BASIC : InputZones,
            FGA : {a}, FGM : {0, a}] : a \in {0, MaxFga}}

PlayerTables(max) ==
    {<<>>} \cup UNION {[1..n -> PlayerRows] : n \in 1..max}

(* ------------------------------ NormSpec ------------------------------- *)
NormInit ==
    /\ \/ /\ pc = "norm_league"
          /\ df_league_raw \in {None} \cup {Some(t) : t \in LeagueTables(MaxRows)}
          /\ df_players_raw = None
       \/ /\ pc = "norm_player"
          /\ df_league_raw = None
          /\ df_players_raw \in {None} \cup {Some(t) : t \in PlayerTables(MaxPlayerRows)}
    /\ directory = {}
    /\ files = [d \in Datasets |-> None]
    /\ memo = [f \in CachedFns |-> NoEntry]
    /\ df_league = None
    /\ df_players = None
    /\ df_curry_shots = None
    /\ loc = NoLocals
    /\ events = <<>>
    /\ served = [d \in Datasets |-> NotServed]
    /\ view = NoView
    /\ raised = FALSE
    /\ call = IF pc = "norm_league"
              THEN [fn |-> "process_league_data", args |-> <<df_league_raw>>]
              ELSE [fn |-> "process_player_data", args |-> <<df_players_raw>>]
    /\ ret = NoRet

\* process_league_data(df_league_raw)
NormalizeLeague ==
    /\ pc = "norm_league"
    /\ LET r == process_league_data(df_league_raw) IN
       /\ df_league' = r.ret
       /\ raised' = r.raised
       /\ df_league_raw' = r.arg
    /\ pc' = "norm_league_done"
    /\ UNCHANGED <<directory, call, ret, files, memo, df_players_raw,
                   df_players, df_curry_shots, loc, events, served, view>>

\* process_player_data(df_players_raw)
NormalizePlayer ==
    /\ pc = "norm_player"
    /\ LET r == process_player_data(df_players_raw) IN
       /\ df_players' = r.ret
       /\ raised' = r.raised
       /\ df_players_raw' = r.arg
    /\ pc' = "norm_player_done"
    /\ UNCHANGED <<directory, call, ret, files, memo, df_league_raw, df_league,
                   df_curry_shots, loc, events, served, view>>

NormNext == NormalizeLeague \/ NormalizePlayer

NormSpec == NormInit /\ [][NormNext]_vars

(* ------------------------------ upstream ------------------------------- *)
NBA_API_AVAILABLE == TRUE

\* time.sleep arguments, in tenths of a second
LeagueDelay == 10
PlayerDelay == 6
CurryDelay == 10

CurryStartYear == 2009

CallEv(ds, name, season, ok) ==
    [ev |-> "call", ds |-> ds, name |-> name, season |-> season, ok |-> ok,
     dur |-> 0]
SleepEv(ds, dur) ==
    [ev |-> "sleep", ds |-> ds, name |-> "", season |-> <<>>, ok |-> TRUE,
     dur |-> dur]
WriteEv(ds) ==
    [ev |-> "write", ds |-> ds, name |-> "", season |-> <<>>, ok |-> TRUE,
     dur |-> 0]

\* resp.get_data_frames()[0] of LeagueDashTeamShotLocations, with df['SEASON']
LeagueFrame(season) ==
    <<[Unnamed0 |-> "1610612744", Unnamed1 |-> "Golden State Warriors",
       SEASON |-> season, fga |-> [z \in InputZones |-> Num(1)]]>>

\* resp.get_data_frames()[0] of ShotChartDetail: no shot before the rookie year
ShotFrame(name, season) ==
    IF name = "Stephen Curry" /\ int(Head_k(season, 4)) < CurryStartYear
    THEN <<>>
    ELSE <<[SHOT_ZONE_BASIC |-> "Restricted Area", SHOT_TYPE |-> "2PT Field Goal",
            SHOT_MADE_FLAG |-> 1, LOC_X |-> 0, LOC_Y |-> 10],
           [SHOT_ZONE_BASIC |-> "Above the Break 3", SHOT_TYPE |-> "3PT Field Goal",
            SHOT_MADE_FLAG |-> 0, LOC_X |-> 0, LOC_Y |-> 250]>>

\* name.lower() in p['full_name'].lower(): of the names kept here none is a
\* part of another, so a name is found in a full name exactly when they agree
NameMatches(name, full_name) == name = full_name

find_player_by_name(name) ==
    IF ~NBA_API_AVAILABLE THEN <<>>
    ELSE SelectSeq(AllPlayerNames,
                   LAMBDA p : p \in directory /\ NameMatches(name, p))

(* --------------------------- league fetch loop ------------------------- *)
\* faulty variant of fetch_league_unit: a failed call ends the loop
fetch_league_unit_abort(l, file, season, ok) ==
    [loc |-> [l EXCEPT !.i = IF ok THEN l.i + 1 ELSE Len(SEASONS) + 1,
                       !.frames = IF ok THEN Append(l.frames, LeagueFrame(season))
                                  ELSE l.frames],
     evs |-> <<CallEv("league", "", season, ok)>>
             \o (IF ok THEN <<SleepEv("league", LeagueDelay)>> ELSE <<>>),
     file |-> file]

\* faulty variant of fetch_league_unit: the cache file is rewritten after each frame
fetch_league_unit_incremental(l, file, season, ok) ==
    [loc |-> [l EXCEPT !.i = l.i + 1,
                       !.frames = IF ok THEN Append(l.frames, LeagueFrame(season))
                                  ELSE l.frames],
     evs |-> <<CallEv("league", "", season, ok)>>
             \o (IF ok THEN <<WriteEv("league"), SleepEv("league", LeagueDelay)>>
                 ELSE <<>>),
     file |-> IF ok THEN Some(Concat(Append(l.frames, LeagueFrame(season))))
              ELSE file]

\* one pass of the loop over SEASONS: [loc, evs, file]
fetch_league_unit(l, file, season, ok) ==
    [loc |-> [l EXCEPT !.i = l.i + 1,
                       !.frames = IF ok THEN Append(l.frames, LeagueFrame(season))
                                  ELSE l.frames],
     evs |-> <<CallEv("league", "", season, ok)>>
             \o (IF ok THEN <<SleepEv("league", LeagueDelay)>> ELSE <<>>),
     file |-> file]

\* after the loop: [ret, file, evs]
fetch_league_end(l, file) ==
    IF Len(l.frames) > 0
    THEN [ret |-> Some(Concat(l.frames)), file |-> Some(Concat(l.frames)),
          evs |-> <<WriteEv("league")>>]
    ELSE [ret |-> None, file |-> file, evs |-> <<>>]

Answer(d, how) == [served EXCEPT ![d] = [how |-> how, file_existed |-> files[d].some]]

load_league_data ==
    /\ pc = "load_league"
    /\ IF memo["load_league_data"].set
       THEN /\ df_league_raw' = memo["load_league_data"].val
            /\ served' = Answer("league", "memo")
            /\ pc' = "process_league"
            /\ UNCHANGED <<memo, loc>>
       ELSE IF files["league"].some
       THEN /\ df_league_raw' = files["league"]
            /\ memo' = [memo EXCEPT !["load_league_data"] = Entry(files["league"])]
            /\ served' = Answer("league", "file")
            /\ pc' = "process_league"
            /\ UNCHANGED loc
       ELSE IF memo["fetch_league_shot_data"].set
       THEN /\ df_league_raw' = memo["fetch_league_shot_data"].val
            /\ memo' = [memo EXCEPT !["load_league_data"] =
                                        Entry(memo["fetch_league_shot_data"].val)]
            /\ served' = Answer("league", "memo")
            /\ pc' = "process_league"
            /\ UNCHANGED loc
       ELSE IF ~NBA_API_AVAILABLE
       THEN /\ df_league_raw' = None
            /\ memo' = [memo EXCEPT !["load_league_data"] = Entry(None),
                                    !["fetch_league_shot_data"] = Entry(None)]
            /\ served' = Answer("league", "fetch")
            /\ pc' = "process_league"
            /\ UNCHANGED loc
       ELSE /\ loc' = [NoLocals EXCEPT !.i = 1]
            /\ served' = Answer("league", "fetch")
            /\ pc' = "fetch_league"
            /\ UNCHANGED <<memo, df_league_raw>>
    /\ UNCHANGED <<directory, call, ret, files, df_league, df_players_raw, df_players,
                   df_curry_shots, events, view, raised>>

fetch_league_shot_data_unit ==
    /\ pc = "fetch_league"
    /\ loc.i <= Len(SEASONS)
    /\ \E ok \in BOOLEAN :
         LET r == fetch_league_unit(loc, files["league"], SEASONS[loc.i], ok) IN
         /\ loc' = r.loc
         /\ events' = events \o r.evs
         /\ files' = [files EXCEPT !["league"] = r.file]
    /\ UNCHANGED <<pc, directory, call, ret, memo, df_league_raw, df_league, df_players_raw,
                   df_players, df_curry_shots, served, view, raised>>

fetch_league_shot_data_end ==
    /\ pc = "fetch_league"
    /\ loc.i > Len(SEASONS)
    /\ LET r == fetch_league_end(loc, files["league"]) IN
       /\ files' = [files EXCEPT !["league"] = r.file]
       /\ events' = events \o r.evs
       /\ memo' = [memo EXCEPT !["fetch_league_shot_data"] = Entry(r.ret),
                               !["load_league_data"] = Entry(r.ret)]
       /\ df_league_raw' = r.ret
    /\ loc' = NoLocals
    /\ pc' = "process_league"
    /\ UNCHANGED <<directory, call, ret, df_league, df_players_raw, df_players,
                   df_curry_shots, served, view, raised>>

\* main: df_league = process_league_data(df_league_raw) if ... else None
process_league ==
    /\ pc = "process_league"
    /\ LET r == IF df_league_raw.some THEN process_league_data(df_league_raw)
                ELSE [raised |-> FALSE, ret |-> None, arg |-> None] IN
       /\ df_league' = r.ret
       /\ raised' = r.raised
       /\ df_league_raw' = r.arg
       /\ pc' = IF r.raised THEN "idle" ELSE "load_player"
    /\ UNCHANGED <<directory, call, ret, files, memo, df_players_raw,
                   df_players, df_curry_shots, loc, events, served, view>>

(* --------------------------- player fetch loop ------------------------- *)
\* the names of PLAYER_NAMES that resolve, in order (the keys of player_map)
player_map ==
    SelectSeq(PLAYER_NAMES, LAMBDA n : Len(find_player_by_name(n)) > 0)

\* df_shots.groupby('SHOT_ZONE_BASIC').agg(FGA=count, FGM=sum), with the
\* SEASON_ID and PLAYER_NAME columns
AggShots(shots, name, season) ==
    LET zs == SortSet({shots[i].SHOT_ZONE_BASIC : i \in 1..Len(shots)},
                      LAMBDA a, b : ZoneRank(a) < ZoneRank(b))
        InZone(z) == SelectSeq(shots, LAMBDA r : r.SHOT_ZONE_BASIC = z)
    IN [j \in 1..Len(zs) |->
          [PLAYER_NAME |-> name, SEASON_ID |-> season,
           SHOT_ZONE_BASIC |-> zs[j],
           FGA |-> Len(InZone(zs[j])),
           FGM |-> SeqSum([k \in 1..Len(InZone(zs[j])) |->
                              InZone(zs[j])[k].SHOT_MADE_FLAG])]]

\* one pass of the inner loop (player names[l.p], season seasons[l.i])
fetch_player_unit(l, file, names, seasons, ok) ==
    LET name == names[l.p]
        season == seasons[l.i]
        df_shots == ShotFrame(name, season)
        psf == IF ok /\ Len(df_shots) > 0
               THEN Append(l.player_season_frames, AggShots(df_shots, name, season))
               ELSE l.player_season_frames
    IN [loc |-> IF l.i < Len(seasons)
                THEN [l EXCEPT !.i = l.i + 1, !.player_season_frames = psf]
                ELSE [p |-> l.p + 1, i |-> 1, frames |-> l.frames \o psf,
                      player_season_frames |-> <<>>],
        evs |-> <<CallEv("player", name, season, ok)>>
                \o (IF ok THEN <<SleepEv("player", PlayerDelay)>> ELSE <<>>),
        file |-> file]

fetch_player_end(l, file) ==
    IF Len(l.frames) > 0
    THEN [ret |-> Some(Concat(l.frames)), file |-> Some(Concat(l.frames)),
          evs |-> <<WriteEv("player")>>]
    ELSE [ret |-> None, file |-> file, evs |-> <<>>]

load_player_data ==
    /\ pc = "load_player"
    /\ IF memo["load_player_data"].set
       THEN /\ df_players_raw' = memo["load_player_data"].val
            /\ served' = Answer("player", "memo")
            /\ pc' = "process_player"
            /\ UNCHANGED <<memo, loc>>
       ELSE IF files["player"].some
       THEN /\ df_players_raw' = files["player"]
            /\ memo' = [memo EXCEPT !["load_player_data"] = Entry(files["player"])]
            /\ served' = Answer("player", "file")
            /\ pc' = "process_player"
            /\ UNCHANGED loc
       ELSE IF memo["fetch_player_shot_data"].set
       THEN /\ df_players_raw' = memo["fetch_player_shot_data"].val
            /\ memo' = [memo EXCEPT !["load_player_data"] =
                                        Entry(memo["fetch_player_shot_data"].val)]
            /\ served' = Answer("player", "memo")
            /\ pc' = "process_player"
            /\ UNCHANGED loc
       ELSE IF ~NBA_API_AVAILABLE \/ Len(player_map) = 0
       THEN /\ df_players_raw' = None
            /\ memo' = [memo EXCEPT !["load_player_data"] = Entry(None),
                                    !["fetch_player_shot_data"] = Entry(None)]
            /\ served' = Answer("player", "fetch")
            /\ pc' = "process_player"
            /\ UNCHANGED loc
       ELSE /\ loc' = [NoLocals EXCEPT !.p = 1, !.i = 1]
            /\ served' = Answer("player", "fetch")
            /\ pc' = "fetch_player"
            /\ UNCHANGED <<memo, df_players_raw>>
    /\ UNCHANGED <<directory, call, ret, files, df_league_raw, df_league, df_players,
                   df_curry_shots, events, view, raised>>

fetch_player_shot_data_unit ==
    /\ pc = "fetch_player"
    /\ loc.p <= Len(player_map)
    /\ \E ok \in BOOLEAN :
         LET r == fetch_player_unit(loc, files["player"], player_map, SEASONS, ok) IN
         /\ loc' = r.loc
         /\ events' = events \o r.evs
         /\ files' = [files EXCEPT !["player"] = r.file]
    /\ UNCHANGED <<pc, directory, call, ret, memo, df_league_raw, df_league, df_players_raw,
                   df_players, df_curry_shots, served, view, raised>>

fetch_player_shot_data_end ==
    /\ pc = "fetch_player"
    /\ loc.p > Len(player_map)
    /\ LET r == fetch_player_end(loc, files["player"]) IN
       /\ files' = [files EXCEPT !["player"] = r.file]
       /\ events' = events \o r.evs
       /\ memo' = [memo EXCEPT !["fetch_player_shot_data"] = Entry(r.ret),
                               !["load_player_data"] = Entry(r.ret)]
       /\ df_players_raw' = r.ret
    /\ loc' = NoLocals
    /\ pc' = "process_player"
    /\ UNCHANGED <<directory, call, ret, df_league_raw, df_league, df_players,
                   df_curry_shots, served, view, raised>>

\* main: df_players = process_player_data(df_players_raw) if ... else None
process_player ==
    /\ pc = "process_player"
    /\ LET r == IF df_players_raw.some THEN process_player_data(df_players_raw)
                ELSE [raised |-> FALSE, ret |-> None, arg |-> None] IN
       /\ df_players' = r.ret
       /\ raised' = r.raised
       /\ df_players_raw' = r.arg
       /\ pc' = IF r.raised THEN "idle" ELSE "load_curry"
    /\ UNCHANGED <<directory, call, ret, files, memo, df_league_raw, df_league,
                   df_curry_shots, loc, events, served, view>>

(* ---------------------------- Curry fetch loop ------------------------- *)
curry_seasons ==
    SelectSeq(SEASONS, LAMBDA s : int(Head_k(s, 4)) >= CurryStartYear)

\* resp.get_data_frames()[0] with df['SEASON'] = season
CurryFrame(season) ==
    LET df == ShotFrame("Stephen Curry", season) IN
    [k \in 1..Len(df) |->
        [SEASON |-> season, SHOT_ZONE_BASIC |-> df[k].SHOT_ZONE_BASIC,
         SHOT_TYPE |-> df[k].SHOT_TYPE, SHOT_MADE_FLAG |-> df[k].SHOT_MADE_FLAG,
         LOC_X |-> df[k].LOC_X, LOC_Y |-> df[k].LOC_Y]]

fetch_curry_unit(l, file, season, ok) ==
    [loc |-> [l EXCEPT !.i = l.i + 1,
                       !.frames = IF ok THEN Append(l.frames, CurryFrame(season))
                                  ELSE l.frames],
     evs |-> <<CallEv("curry", "Stephen Curry", season, ok)>>
             \o (IF ok THEN <<SleepEv("curry", CurryDelay)>> ELSE <<>>),
     file |-> file]

fetch_curry_end(l, file) ==
    IF Len(l.frames) > 0
    THEN [ret |-> Some(Concat(l.frames)), file |-> Some(Concat(l.frames)),
          evs |-> <<WriteEv("curry")>>]
    ELSE [ret |-> None, file |-> file, evs |-> <<>>]

load_curry_shotchart_data ==
    /\ pc = "load_curry"
    /\ IF memo["load_curry_shotchart_data"].set
       THEN /\ df_curry_shots' = memo["load_curry_shotchart_data"].val
            /\ served' = Answer("curry", "memo")
            /\ pc' = "render"
            /\ UNCHANGED <<memo, loc>>
       ELSE IF files["curry"].some
       THEN /\ df_curry_shots' = files["curry"]
            /\ memo' = [memo EXCEPT !["load_curry_shotchart_data"] =
                                        Entry(files["curry"])]
            /\ served' = Answer("curry", "file")
            /\ pc' = "render"
            /\ UNCHANGED loc
       ELSE IF memo["fetch_curry_shotchart_data"].set
       THEN /\ df_curry_shots' = memo["fetch_curry_shotchart_data"].val
            /\ memo' = [memo EXCEPT !["load_curry_shotchart_data"] =
                                        Entry(memo["fetch_curry_shotchart_data"].val)]
            /\ served' = Answer("curry", "memo")
            /\ pc' = "render"
            /\ UNCHANGED loc
       ELSE IF ~NBA_API_AVAILABLE \/ Len(find_player_by_name("Stephen Curry")) = 0
       THEN /\ df_curry_shots' = None
            /\ memo' = [memo EXCEPT !["load_curry_shotchart_data"] = Entry(None),
                                    !["fetch_curry_shotchart_data"] = Entry(None)]
            /\ served' = Answer("curry", "fetch")
            /\ pc' = "render"
            /\ UNCHANGED loc
       ELSE /\ loc' = [NoLocals EXCEPT !.i = 1]
            /\ served' = Answer("curry", "fetch")
            /\ pc' = "fetch_curry"
            /\ UNCHANGED <<memo, df_curry_shots>>
    /\ UNCHANGED <<directory, call, ret, files, df_league_raw, df_league, df_players_raw,
                   df_players, events, view, raised>>

fetch_curry_shotchart_data_unit ==
    /\ pc = "fetch_curry"
    /\ loc.i <= Len(curry_seasons)
    /\ \E ok \in BOOLEAN :
         LET r == fetch_curry_unit(loc, files["curry"], curry_seasons[loc.i], ok) IN
         /\ loc' = r.loc
         /\ events' = events \o r.evs
         /\ files' = [files EXCEPT !["curry"] = r.file]
    /\ UNCHANGED <<pc, directory, call, ret, memo, df_league_raw, df_league, df_players_raw,
                   df_players, df_curry_shots, served, view, raised>>

fetch_curry_shotchart_data_end ==
    /\ pc = "fetch_curry"
    /\ loc.i > Len(curry_seasons)
    /\ LET r == fetch_curry_end(loc, files["curry"]) IN
       /\ files' = [files EXCEPT !["curry"] = r.file]
       /\ events' = events \o r.evs
       /\ memo' = [memo EXCEPT !["fetch_curry_shotchart_data"] = Entry(r.ret),
                               !["load_curry_shotchart_data"] = Entry(r.ret)]
       /\ df_curry_shots' = r.ret
    /\ loc' = NoLocals
    /\ pc' = "render"
    /\ UNCHANGED <<directory, call, ret, df_league_raw, df_league, df_players_raw,
                   df_players, served, view, raised>>

(* -------------------------------- charts ------------------------------- *)
HalfCourtY == 420

\* faulty variant of create_shot_chart: the threshold itself is kept
create_shot_chart_le(df_shots, selected_season) ==
    LET df_filtered == SelectSeq(df_shots, LAMBDA r : r.SEASON = selected_season) IN
    IF Len(df_filtered) = 0 THEN None
    ELSE Some(SelectSeq(df_filtered, LAMBDA r : r.LOC_Y <= HalfCourtY))

\* None when the season has no shot, else the shots the hexagon layer gets
create_shot_chart(df_shots, selected_season) ==
    LET df_filtered == SelectSeq(df_shots, LAMBDA r : r.SEASON = selected_season) IN
    IF Len(df_filtered) = 0 THEN None
    ELSE Some(SelectSeq(df_filtered, LAMBDA r : r.LOC_Y < HalfCourtY))

\* [raised, traces]: the names of the traces added to the figure
create_trend_comparison_chart(league, players, selected_players) ==
    LET curry_df == SelectSeq(players, LAMBDA r : r.PLAYER_NAME = "Stephen Curry")
        others == SelectSeq(selected_players,
                     LAMBDA n : /\ n # "Stephen Curry"
                                /\ \E i \in 1..Len(players) : players[i].PLAYER_NAME = n)
    IN IF Len(curry_df) = 0
       THEN [raised |-> TRUE, traces |-> <<"League Average">>]
       ELSE [raised |-> FALSE,
             traces |-> <<"League Average", "Stephen Curry">> \o others]

PlayersIn(df) == {df.tbl[i].PLAYER_NAME : i \in 1..Len(df.tbl)}

Options ==
    {"League Average"} \cup (IF df_players.some THEN PlayersIn(df_players) ELSE {})

AvailableStars ==
    IF df_players.some THEN PlayersIn(df_players) \ {"Stephen Curry"} ELSE {}

SeasonsAvailable ==
    IF df_curry_shots.some
    THEN {df_curry_shots.tbl[i].SEASON : i \in 1..Len(df_curry_shots.tbl)}
    ELSE {}

\* the part of main after the data is loaded: what each chart slot shows
main_render(selected_entity, comparison_players, selected_season) ==
    LET current_df ==
            IF selected_entity = "League Average" THEN df_league
            ELSE IF df_players.some
            THEN Some(SelectSeq(df_players.tbl,
                                LAMBDA r : r.PLAYER_NAME = selected_entity))
            ELSE None
        c1 == IF current_df.some /\ Len(current_df.tbl) > 0 THEN "chart"
              ELSE "message"
        c2 == IF df_league.some /\ df_players.some
              THEN IF create_trend_comparison_chart(df_league.tbl, df_players.tbl,
                                                    comparison_players).raised
                   THEN "raised" ELSE "chart"
              ELSE "message"
        c3 == IF c2 = "raised" THEN "none"
              ELSE IF df_curry_shots.some /\ Len(df_curry_shots.tbl) > 0
              THEN IF create_shot_chart(df_curry_shots.tbl, selected_season).some
                   THEN "chart" ELSE "message"
              ELSE "message"
    IN [view |-> [chart1 |-> c1, chart2 |-> c2, chart3 |-> c3],
        raised |-> c2 = "raised"]

(* --------------------------------- page -------------------------------- *)
\* the script runs: the page is opened or a widget other than a refresh
\* button is used
Run ==
    /\ pc = "idle"
    /\ pc' = "load_league"
    /\ view' = NoView
    /\ raised' = FALSE
    /\ UNCHANGED <<directory, call, ret, files, memo, df_league_raw, df_league,
                   df_players_raw, df_players, df_curry_shots, loc, events, served>>

\* a refresh button: os.remove of the cache file, then st.rerun()
Refresh(d) ==
    /\ pc = "idle"
    /\ files' = [files EXCEPT ![d] = None]
    /\ pc' = "load_league"
    /\ view' = NoView
    /\ raised' = FALSE
    /\ UNCHANGED <<directory, call, ret, memo, df_league_raw, df_league, df_players_raw,
                   df_players, df_curry_shots, loc, events, served>>

refresh_league == Refresh("league")
refresh_player == Refresh("player")
refresh_curry == Refresh("curry")

Render ==
    /\ pc = "render"
    /\ \E e \in Options, c \in SUBSET AvailableStars,
          s \in (IF SeasonsAvailable = {} THEN {<<>>} ELSE SeasonsAvailable) :
         LET r == main_render(e, SelectSeq(AllPlayerNames, LAMBDA n : n \in c), s) IN
         /\ view' = r.view
         /\ raised' = r.raised
    /\ pc' = "idle"
    /\ UNCHANGED <<directory, call, ret, files, memo, df_league_raw, df_league,
                   df_players_raw, df_players, df_curry_shots, loc, events, served>>

\* cache files an earlier process left behind
FullLeague == Concat([i \in 1..Len(SEASONS) |-> LeagueFrame(SEASONS[i])])
FullPlayer ==
    Concat([k \in 1..(Len(PLAYER_NAMES) * Len(SEASONS)) |->
        LET name == PLAYER_NAMES[((k - 1) \div Len(SEASONS)) + 1]
            season == SEASONS[((k - 1) % Len(SEASONS)) + 1]
        IN AggShots(ShotFrame(name, season), name, season)])
FullCurry == Concat([i \in 1..Len(curry_seasons) |-> CurryFrame(curry_seasons[i])])

Init ==
    /\ pc = "idle"
    \* the directory lists every tracked player, all but the first, or none
    /\ directory \in {{PLAYER_NAMES[k] : k \in j..Len(PLAYER_NAMES)} :
                       j \in {1, 2, Len(PLAYER_NAMES) + 1}}
    /\ files \in {f \in [Datasets -> {None, Some(FullLeague), Some(FullPlayer),
                                      Some(FullCurry)}] :
                    /\ f["league"] \in {None, Some(FullLeague)}
                    /\ f["player"] \in {None, Some(FullPlayer)}
                    /\ f["curry"] \in {None, Some(FullCurry)}}
    /\ memo = [f \in CachedFns |-> NoEntry]
    /\ df_league_raw = None
    /\ df_league = None
    /\ df_players_raw = None
    /\ df_players = None
    /\ df_curry_shots = None
    /\ loc = NoLocals
    /\ events = <<>>
    /\ served = [d \in Datasets |-> NotServed]
    /\ view = NoView
    /\ raised = FALSE
    /\ call = NoCall
    /\ ret = NoRet

Next ==
    \/ Run
    \/ refresh_league
    \/ refresh_player
    \/ refresh_curry
    \/ load_league_data
    \/ fetch_league_shot_data_unit
    \/ fetch_league_shot_data_end
    \/ process_league
    \/ load_player_data
    \/ fetch_player_shot_data_unit
    \/ fetch_player_shot_data_end
    \/ process_player
    \/ load_curry_shotchart_data
    \/ fetch_curry_shotchart_data_unit
    \/ fetch_curry_shotchart_data_end
    \/ Render

Spec == Init /\ [][Next]_vars

(* --------------------------- shot statistics --------------------------- *)
\* made / total * 100 as a fraction, or the int 0 of the else branch
Pct(made, total) ==
    IF total > 0 THEN [num |-> made * 100, den |-> total]
    ELSE [num |-> 0, den |-> 1]

\* df['SHOT_MADE_FLAG'].sum()
MadeSum(t) == SeqSum([i \in 1..Len(t) |-> t[i].SHOT_MADE_FLAG])

\* faulty variant of shot_statistics: the 3-point rows are not selected
shot_statistics_unfiltered(df_shots, selected_season) ==
    LET season_data == SelectSeq(df_shots, LAMBDA r : r.SEASON = selected_season)
    IN IF Len(season_data) = 0
       THEN [shown |-> FALSE, total |-> 0, made |-> 0, fg_pct |-> Pct(0, 0),
             three_pt_made |-> 0, three_pt_total |-> 0, three_pt_pct |-> Pct(0, 0)]
       ELSE [shown |-> TRUE, total |-> Len(season_data), made |-> MadeSum(season_data),
             fg_pct |-> Pct(MadeSum(season_data), Len(season_data)),
             three_pt_made |-> MadeSum(season_data),
             three_pt_total |-> Len(season_data),
             three_pt_pct |-> Pct(MadeSum(season_data), Len(season_data))]

\* the "Shot Statistics" block of main: the four metrics, shown when the
\* selected season has shots
shot_statistics(df_shots, selected_season) ==
    LET season_data == SelectSeq(df_shots, LAMBDA r : r.SEASON = selected_season)
        three_pt == SelectSeq(season_data, LAMBDA r : r.SHOT_TYPE = "3PT Field Goal")
    IN IF Len(season_data) = 0
       THEN [shown |-> FALSE, total |-> 0, made |-> 0, fg_pct |-> Pct(0, 0),
             three_pt_made |-> 0, three_pt_total |-> 0, three_pt_pct |-> Pct(0, 0)]
       ELSE [shown |-> TRUE, total |-> Len(season_data), made |-> MadeSum(season_data),
             fg_pct |-> Pct(MadeSum(season_data), Len(season_data)),
             three_pt_made |-> MadeSum(three_pt),
             three_pt_total |-> Len(three_pt),
             three_pt_pct |-> Pct(MadeSum(three_pt), Len(three_pt))]

(* ------------------------- the 3-point arc ----------------------------- *)
\* Floats are fixed-point numbers here: angles and cosines count 1/Scale,
\* court coordinates count hundredths of a court unit (a tenth of a foot).
Scale == 10000
\* math.pi
PiFix == 31416
\* radius = 237.5 and the corner offset 220, in hundredths
ArcRadius == 23750
CornerX == 22000
\* steps = 20
ArcSteps == 20
\* terms of the series of cos and sin
SeriesTerms == 8

\* a * b of two non-negative fixed-point numbers, rounded
MulFix(a, b) == (a * b + Scale \div 2) \div Scale

\* sum of the alternating series whose term k is t and whose next
\* denominator starts at d: t - t*x*x/(d(d+1)) + ...
RECURSIVE Series(_, _, _, _)
Series(x, t, d, k) ==
    IF k = 0 \/ t = 0 THEN 0
    ELSE t - Series(x, MulFix(MulFix(t, x), x) \div (d * (d + 1)), d + 2, k - 1)

\* math.cos and math.sin on [0, pi]
cos(a) ==
    IF 2 * a <= PiFix THEN Series(a, Scale, 1, SeriesTerms)
    ELSE 0 - Series(PiFix - a, Scale, 1, SeriesTerms)

sin(a) ==
    IF 2 * a <= PiFix THEN Series(a, a, 2, SeriesTerms)
    ELSE Series(PiFix - a, PiFix - a, 2, SeriesTerms)

\* math.acos on [0, 1]: the angle of [0, pi/2] whose cosine is v
RECURSIVE AcosIn(_, _, _)
AcosIn(v, lo, hi) ==
    IF hi - lo <= 1
    THEN (IF cos(lo) - v <= v - cos(hi) THEN lo ELSE hi)
    ELSE LET mid == (lo + hi) \div 2 IN
         IF cos(mid) > v THEN AcosIn(v, mid, hi) ELSE AcosIn(v, lo, mid)

acos(v) == AcosIn(v, 0, PiFix \div 2)

start_angle == acos((CornerX * Scale) \div ArcRadius)
end_angle == PiFix - start_angle

\* faulty variant of angles: range(steps) leaves the last angle out
angles_short ==
    [i \in 1..ArcSteps |->
        start_angle + ((end_angle - start_angle) * (i - 1)) \div ArcSteps]

angles ==
    [i \in 1..(ArcSteps + 1) |->
        start_angle + ((end_angle - start_angle) * (i - 1)) \div ArcSteps]

\* radius * math.cos(a), radius * math.sin(a): cos may be negative
ArcX(a) ==
    IF cos(a) >= 0 THEN (ArcRadius * cos(a) + Scale \div 2) \div Scale
    ELSE 0 - ((ArcRadius * (0 - cos(a)) + Scale \div 2) \div Scale)

ArcY(a) == (ArcRadius * sin(a) + Scale \div 2) \div Scale

\* the segments the loop over the angles hands to add_line
court_arc ==
    [i \in 1..(Len(angles) - 1) |->
        [x1 |-> ArcX(angles[i]), y1 |-> ArcY(angles[i]),
         x2 |-> ArcX(angles[i + 1]), y2 |-> ArcY(angles[i + 1])]]

\* baseline_y = -52.5 and the length 140 of the straight corner parts, in
\* hundredths of a court unit like the arc's coordinates
baseline_y == 0 - 5250
CornerLength == 14000

\* the two straight parts of the 3-point line handed to add_line
corner_lines ==
    <<[x1 |-> 0 - CornerX, y1 |-> baseline_y,
       x2 |-> 0 - CornerX, y2 |-> baseline_y + CornerLength],
      [x1 |-> CornerX, y1 |-> baseline_y,
       x2 |-> CornerX, y2 |-> baseline_y + CornerLength]>>

\* the 3-point line as drawn: the straight parts, then the arc
three_point_line == [straight |-> corner_lines, arc |-> court_arc]

(* ------------------------------- FnSpec -------------------------------- *)
\* helpers called on their own, on inputs the page never passes them
Years == (0..LowYears) \cup ((FirstYear - YearSpan)..(FirstYear + 2))

SeasonRanges ==
    {<<a, b>> \in Years \X Years : b - a \in (0 - YearSpan - 2)..(YearSpan + 2)}

\* shot events around the half-court threshold
ShotRows ==
    [SEASON : NormSeasons, LOC_X : {0},
     LOC_Y : {100, HalfCourtY - 1, HalfCourtY, HalfCourtY + 10}]

ShotTables(max) == {<<>>} \cup UNION {[1..n -> ShotRows] : n \in 1..max}

\* shot events as the statistics read them
StatRows ==
    [SEASON : NormSeasons, SHOT_TYPE : {"2PT Field Goal", "3PT Field Goal"},
     SHOT_MADE_FLAG : {0, 1}]

StatTables(max) == {<<>>} \cup UNION {[1..n -> StatRows] : n \in 1..max}

Calls(max) ==
    {[fn |-> "season_str", args |-> <<y>>] : y \in Years}
    \cup {[fn |-> "get_season_list", args |-> r] : r \in SeasonRanges}
    \cup {[fn |-> "create_shot_chart", args |-> <<t, s>>] :
             t \in ShotTables(max), s \in NormSeasons}
    \cup {[fn |-> "court_arc", args |-> <<>>]}
    \cup {[fn |-> "shot_statistics", args |-> <<t, s>>] :
             t \in StatTables(max), s \in NormSeasons}
    \cup {[fn |-> "three_point_line", args |-> <<>>]}

FnInit ==
    /\ pc = "call"
    /\ call \in Calls(MaxShots)
    /\ ret = NoRet
    /\ directory = {}
    /\ files = [d \in Datasets |-> None]
    /\ memo = [f \in CachedFns |-> NoEntry]
    /\ df_league_raw = None
    /\ df_league = None
    /\ df_players_raw = None
    /\ df_players = None
    /\ df_curry_shots = None
    /\ loc = NoLocals
    /\ events = <<>>
    /\ served = [d \in Datasets |-> NotServed]
    /\ view = NoView
    /\ raised = FALSE

Return(v) ==
    /\ ret' = [exc |-> "", val |-> v]
    /\ pc' = "returned"
    /\ UNCHANGED <<directory, call, files, memo, df_league_raw, df_league,
                   df_players_raw, df_players, df_curry_shots, loc, events,
                   served, view, raised>>

call_season_str ==
    /\ pc = "call"
    /\ call.fn = "season_str"
    /\ Return(season_str(call.args[1]))

call_get_season_list ==
    /\ pc = "call"
    /\ call.fn = "get_season_list"
    /\ Return(get_season_list(call.args[1], call.args[2]))

call_create_shot_chart ==
    /\ pc = "call"
    /\ call.fn = "create_shot_chart"
    /\ Return(create_shot_chart(call.args[1], call.args[2]))

\* the arc loop of create_shot_chart
call_court_arc ==
    /\ pc = "call"
    /\ call.fn = "court_arc"
    /\ Return(court_arc)

call_shot_statistics ==
    /\ pc = "call"
    /\ call.fn = "shot_statistics"
    /\ Return(shot_statistics(call.args[1], call.args[2]))

call_three_point_line ==
    /\ pc = "call"
    /\ call.fn = "three_point_line"
    /\ Return(three_point_line)

FnNext ==
    \/ call_season_str
    \/ call_get_season_list
    \/ call_create_shot_chart
    \/ call_court_arc
    \/ call_shot_statistics
    \/ call_three_point_line

FnSpec == FnInit /\ [][FnNext]_vars

(* ===================== properties: the fetch loops ===================== *)
FetchFn(d) ==
    CASE d = "league" -> "fetch_league_shot_data"
      [] d = "player" -> "fetch_player_shot_data"
      [] OTHER -> "fetch_curry_shotchart_data"

FetchDone(d) == memo[FetchFn(d)].set

EventsOf(d) == SelectSeq(events, LAMBDA e : e.ds = d)
CallsOf(d) == SelectSeq(events, LAMBDA e : e.ds = d /\ e.ev = "call")
WritesOf(d) == SelectSeq(events, LAMBDA e : e.ds = d /\ e.ev = "write")

\* the fetch units of each loop, in loop order, as [name, season]
ResolvedNames == SelectSeq(PLAYER_NAMES, LAMBDA n : n \in directory)

Units(d) ==
    CASE d = "league" ->
           [k \in 1..Len(SEASONS) |-> [name |-> "", season |-> SEASONS[k]]]
      [] d = "player" ->
           [k \in 1..(Len(ResolvedNames) * Len(SEASONS)) |->
              [name |-> ResolvedNames[((k - 1) \div Len(SEASONS)) + 1],
               season |-> SEASONS[((k - 1) % Len(SEASONS)) + 1]]]
      [] OTHER ->
           IF "Stephen Curry" \in directory
           THEN LET from == IF FirstYear > CurryStartYear THEN FirstYear
                            ELSE CurryStartYear
                IN [k \in 1..(IF LastYear >= from THEN LastYear - from + 1 ELSE 0) |->
                      [name |-> "Stephen Curry", season |-> season_str(from + k - 1)]]
           ELSE <<>>

\* the rows a successful call of unit c contributes
RowsOfCall(d, c) ==
    CASE d = "league" -> LeagueFrame(c.season)
      [] d = "player" -> AggShots(ShotFrame(c.name, c.season), c.name, c.season)
      [] OTHER -> CurryFrame(c.season)

\* a successful call whose frame the loop appends
YieldsFrame(d, c) ==
    c.ok /\ (d = "player" => Len(ShotFrame(c.name, c.season)) > 0)

KeptRows(d) ==
    LET cs == CallsOf(d) IN
    Concat([k \in 1..Len(cs) |-> IF cs[k].ok THEN RowsOfCall(d, cs[k]) ELSE <<>>])

\* C4: in every fetch loop the units are attempted one by one in loop order,
\* a failed unit does not stop the loop (when the fetch has returned, every
\* unit has been attempted exactly once), and the result holds the rows of
\* every unit that succeeded, in order.
C4_EveryUnitAttempted ==
    \A d \in Datasets :
        LET cs == CallsOf(d) IN
        /\ Len(cs) <= Len(Units(d))
        /\ \A k \in 1..Len(cs) :
              cs[k].name = Units(d)[k].name /\ cs[k].season = Units(d)[k].season
        /\ FetchDone(d) =>
              /\ Len(cs) = Len(Units(d))
              /\ LET got == memo[FetchFn(d)].val IN
                 IF got.some THEN got.tbl = KeptRows(d)
                 ELSE \A k \in 1..Len(cs) : ~YieldsFrame(d, cs[k])

C4_Witness ==
    /\ FetchDone("league")
    /\ FetchDone("player")
    /\ Len(CallsOf("league")) >= 2
    /\ ~CallsOf("league")[1].ok
    /\ CallsOf("league")[2].ok
    /\ memo["fetch_league_shot_data"].val.some
    /\ \E k \in 1..Len(CallsOf("player")) : ~CallsOf("player")[k].ok
    /\ memo["fetch_player_shot_data"].val.some

\* C5 as stated: a fetch run whose loop ran has written its cache file
\* exactly once when it returns.
C5_WritesExactlyOnce ==
    \A d \in Datasets :
        (FetchDone(d) /\ Len(Units(d)) > 0) => Len(WritesOf(d)) = 1

\* C5 amended: a fetch run writes its cache file at most once, only after
\* every unit of its loop has been attempted (the write is the last thing the
\* run does), and it writes exactly when at least one unit yielded a frame.
C5_WriteOnceAfterLoop ==
    \A d \in Datasets :
        LET es == EventsOf(d) IN
        /\ Len(WritesOf(d)) <= 1
        /\ \A k \in 1..Len(es) :
              es[k].ev = "write" =>
                 /\ k = Len(es)
                 /\ Len(CallsOf(d)) = Len(Units(d))
        /\ FetchDone(d) =>
              (Len(WritesOf(d)) = 1 <=>
                 \E k \in 1..Len(CallsOf(d)) : YieldsFrame(d, CallsOf(d)[k]))
        /\ (~FetchDone(d) /\ served[d].how = "fetch") => ~files[d].some

C5_Witness ==
    /\ FetchDone("league")
    /\ Len(WritesOf("league")) = 1
    /\ \E k \in 1..Len(CallsOf("league")) : ~CallsOf("league")[k].ok
    /\ FetchDone("curry")
    /\ Len(CallsOf("curry")) > 0
    /\ Len(WritesOf("curry")) = 0

\* C6 as stated: in a fetch loop every upstream call but the first comes
\* right after a delay step of the loop's fixed duration.
C6_DelayBetweenCalls ==
    \A d \in Datasets :
        LET es == EventsOf(d)
            delay == CASE d = "league" -> LeagueDelay
                       [] d = "player" -> PlayerDelay
                       [] OTHER -> CurryDelay
        IN \A k \in 2..Len(es) :
              es[k].ev = "call" => (es[k - 1].ev = "sleep" /\ es[k - 1].dur = delay)

\* C3 as stated: a load that finds the cache file of its dataset absent
\* goes to the upstream source (whenever the dataset has fetch units).
C3_DeletedFileForcesFetch ==
    \A d \in Datasets :
        (served[d].how # "none" /\ ~served[d].file_existed /\ Len(Units(d)) > 0)
            => served[d].how = "fetch"

(* ========================= properties: the page ======================== *)
Rendered == pc = "idle" /\ (view # NoView \/ raised)

\* C7 as stated: when the fetch of a dataset returned no data (every unit
\* failed, no cache file), no cache file was written for it and the page run
\* ends without an exception, with a message in each chart slot that needs
\* the dataset.
C7_DegradesGracefully ==
    \A d \in Datasets :
        (FetchDone(d) /\ ~memo[FetchFn(d)].val.some /\ Len(Units(d)) > 0) =>
            /\ Len(WritesOf(d)) = 0
            /\ ~files[d].some
            /\ Rendered =>
                 /\ ~raised
                 /\ d \in {"league", "player"} => view.chart2 = "message"
                 /\ d = "curry" => view.chart3 = "message"

(* ======================= properties: normalization ===================== *)
ZoneSet == {ZONE_ORDER[k] : k \in 1..Len(ZONE_ORDER)}

\* what a raw cell adds to its zone: its value when it is a number >= 0
Contribution(c) == IF c.kind = "num" /\ c.v >= 0 THEN c.v ELSE 0

Counts(row, z) ==
    /\ row.Unnamed0 # "TEAM_ID"
    /\ row.Unnamed1 # "TEAM_NAME"
    /\ z \in DOMAIN row.fga

ExpectedTotal(t, s, z) ==
    SeqSum([i \in 1..Len(t) |->
              IF t[i].SEASON = s /\ Counts(t[i], z) THEN Contribution(t[i].fga[z])
              ELSE 0])

HasValid(t, s, z) ==
    \E i \in 1..Len(t) :
        /\ t[i].SEASON = s
        /\ Counts(t[i], z)
        /\ t[i].fga[z].kind = "num"
        /\ t[i].fga[z].v >= 0

OutRows(out, s, z) ==
    IF out.some
    THEN SelectSeq(out.tbl, LAMBDA r : r.SEASON = s /\ r.SHOT_ZONE_BASIC = z)
    ELSE <<>>

\* the sum of a sequence of shares is exactly 1
RECURSIVE ShareSum(_)
ShareSum(sh) ==
    IF Len(sh) = 0 THEN [num |-> 0, den |-> 1]
    ELSE LET r == ShareSum(Tail(sh)) IN
         [num |-> sh[1].num * r.den + r.num * sh[1].den, den |-> sh[1].den * r.den]

SharesSumToOne(rows) ==
    /\ \A i \in 1..Len(rows) : rows[i].FGA_SHARE.kind = "ratio"
    /\ LET q == ShareSum([i \in 1..Len(rows) |-> rows[i].FGA_SHARE]) IN
       q.den # 0 /\ q.num = q.den

LeagueDone == pc = "norm_league_done"
PlayerDone == pc = "norm_player_done"

\* C1 as stated: the shares of every (season, entity) pair present in the
\* normalized table sum to 1, whatever the input.
C1_SharesSumToOne ==
    /\ (LeagueDone /\ df_league.some) =>
          \A s \in NormSeasons :
             LET rows == SelectSeq(df_league.tbl, LAMBDA r : r.SEASON = s) IN
             Len(rows) > 0 => SharesSumToOne(rows)
    /\ (PlayerDone /\ df_players.some) =>
          \A i \in 1..Len(df_players.tbl) :
             SharesSumToOne(SelectSeq(df_players.tbl,
                LAMBDA r : /\ r.PLAYER_NAME = df_players.tbl[i].PLAYER_NAME
                           /\ r.SEASON = df_players.tbl[i].SEASON))

\* C2 as stated: an entity-season whose recorded attempts total 0 has no row
\* in the normalized table.
C2_ZeroTotalDropped ==
    /\ (LeagueDone /\ df_league_raw.some /\ df_league.some) =>
          \A s \in NormSeasons :
             (\A z \in ZoneSet : ExpectedTotal(df_league_raw.tbl, s, z) = 0) =>
                 \A i \in 1..Len(df_league.tbl) : df_league.tbl[i].SEASON # s
    /\ (PlayerDone /\ df_players.some) =>
          \A i \in 1..Len(df_players.tbl) :
             SeqSum([k \in 1..Len(df_players_raw.tbl) |->
                IF /\ df_players_raw.tbl[k].PLAYER_NAME = df_players.tbl[i].PLAYER_NAME
                   /\ df_players_raw.tbl[k].SEASON_ID = df_players.tbl[i].SEASON
                THEN df_players_raw.tbl[k].FGA ELSE 0]) # 0

\* C8 as stated: given an empty table, or one whose attempts are all zero,
\* normalization returns no data (None or no rows) and does not raise.
C8_NoDataOnEmptyOrZero ==
    /\ (LeagueDone /\ df_league_raw.some
          /\ \A i \in 1..Len(df_league_raw.tbl) :
                \A z \in DOMAIN df_league_raw.tbl[i].fga :
                    df_league_raw.tbl[i].fga[z] = Num(0))
         => (~raised /\ (~df_league.some \/ Len(df_league.tbl) = 0))
    /\ (PlayerDone /\ df_players_raw.some
          /\ \A i \in 1..Len(df_players_raw.tbl) : df_players_raw.tbl[i].FGA = 0)
         => (~raised /\ (~df_players.some \/ Len(df_players.tbl) = 0))

\* C9 as stated: the league row of a (season, zone) carries the sum of the
\* valid per-team values, and the share 1 when no other zone of the season
\* has data.
C9_SumAcrossTeams ==
    (LeagueDone /\ df_league.some) =>
        \A i \in 1..Len(df_league.tbl) :
            LET r == df_league.tbl[i] IN
            /\ r.FGA = ExpectedTotal(df_league_raw.tbl, r.SEASON, r.SHOT_ZONE_BASIC)
            /\ (\A z \in ZoneSet \ {r.SHOT_ZONE_BASIC} :
                   ~HasValid(df_league_raw.tbl, r.SEASON, z))
               => (r.FGA_SHARE.kind = "ratio" /\ r.FGA_SHARE.num = r.FGA_SHARE.den)

\* C10: league normalization never raises on a missing, negative or
\* non-numeric cell; such a cell adds nothing, and every valid cell of the
\* same row and of the other rows is counted in full: each (season, zone) has
\* one output row exactly when it has a valid cell, and that row's attempts
\* are the sum of the valid cells.
C10_InvalidCellsAddZero ==
    (LeagueDone /\ df_league_raw.some) =>
        /\ ~raised
        /\ \A s \in NormSeasons, z \in ZoneSet :
              LET rows == OutRows(df_league, s, z) IN
              IF HasValid(df_league_raw.tbl, s, z)
              THEN /\ Len(rows) = 1
                   /\ rows[1].FGA = ExpectedTotal(df_league_raw.tbl, s, z)
              ELSE Len(rows) = 0

C10_Witness ==
    /\ LeagueDone
    /\ df_league_raw.some
    /\ Len(df_league_raw.tbl) = 2
    /\ df_league_raw.tbl[1].Unnamed0 # "TEAM_ID"
    /\ df_league_raw.tbl[1].Unnamed1 # "TEAM_NAME"
    /\ df_league_raw.tbl[1].SEASON = df_league_raw.tbl[2].SEASON
    /\ df_league_raw.tbl[1].fga["Restricted Area"] = Num(-1)
    /\ df_league_raw.tbl[1].fga["Above the Break 3"] = Num(MaxFga)
    /\ df_league_raw.tbl[2].fga["Restricted Area"] = Num(MaxFga)
    /\ df_league_raw.tbl[2].fga["Above the Break 3"] = Text
    /\ df_league.some
    /\ \A i \in 1..Len(df_league.tbl) : df_league.tbl[i].FGA = MaxFga

\* the raw table without the rows flagged as header artifacts
WithoutArtifacts(t) ==
    SelectSeq(t, LAMBDA r : r.Unnamed0 # "TEAM_ID" /\ r.Unnamed1 # "TEAM_NAME")

\* C11: a league row flagged as a header artifact (first column 'TEAM_ID' or
\* second column 'TEAM_NAME') yields no record whatever its zone values are:
\* no output row exists for a (season, zone) that only artifact rows fill, and
\* the result is the one the table gives with its artifact rows removed.
C11_HeaderRowIgnored ==
    (LeagueDone /\ df_league_raw.some) =>
        LET rest == WithoutArtifacts(df_league_raw.tbl) IN
        /\ ~raised
        /\ df_league = process_league_data(Some(rest)).ret
        /\ \A s \in NormSeasons, z \in ZoneSet :
              (\A i \in 1..Len(rest) : rest[i].SEASON # s \/ z \notin DOMAIN rest[i].fga)
                 => Len(OutRows(df_league, s, z)) = 0

C11_Witness ==
    /\ LeagueDone
    /\ df_league_raw.some
    /\ Len(df_league_raw.tbl) = 2
    /\ df_league_raw.tbl[1].Unnamed0 # "TEAM_ID"
    /\ df_league_raw.tbl[1].Unnamed1 = "TEAM_NAME"
    /\ df_league_raw.tbl[1].fga["Restricted Area"] = Num(MaxFga)
    /\ df_league_raw.tbl[2].Unnamed1 # "TEAM_NAME"
    /\ df_league_raw.tbl[2].SEASON = df_league_raw.tbl[1].SEASON
    /\ df_league_raw.tbl[2].fga["Restricted Area"] = Num(MaxFga)
    /\ df_league_raw.tbl[2].fga["Above the Break 3"] = Num(MaxFga)
    /\ df_league.some
    /\ Len(df_league.tbl) = 2
    /\ \A i \in 1..2 : df_league.tbl[i].FGA = MaxFga

\* the rows of season s that are not header artifacts
TeamRowsOf(t, s) == SelectSeq(WithoutArtifacts(t), LAMBDA r : r.SEASON = s)

\* every zone value of the season's team rows is missing or negative
AllMissingOrNegative(t, s) ==
    LET rows == TeamRowsOf(t, s) IN
    /\ Len(rows) > 0
    /\ \A i \in 1..Len(rows) : \A z \in DOMAIN rows[i].fga :
          \/ rows[i].fga[z].kind = "nan"
          \/ rows[i].fga[z].kind = "num" /\ rows[i].fga[z].v < 0

\* C12: a season of the league table whose zone values are all missing or
\* negative has no row in the normalized output (it is absent, not present
\* with zero-filled zones), and normalization does not raise.
C12_MissingOrNegativeSeasonAbsent ==
    (LeagueDone /\ df_league_raw.some) =>
        \A s \in NormSeasons :
            AllMissingOrNegative(df_league_raw.tbl, s) =>
                /\ ~raised
                /\ df_league.some =>
                      \A i \in 1..Len(df_league.tbl) : df_league.tbl[i].SEASON # s

C12_Witness ==
    /\ LeagueDone
    /\ df_league_raw.some
    /\ Len(df_league_raw.tbl) = 2
    /\ AllMissingOrNegative(df_league_raw.tbl, season_str(FirstYear))
    /\ df_league_raw.tbl[1].fga["Restricted Area"] = NaN
    /\ df_league_raw.tbl[1].fga["Above the Break 3"] = Num(-1)
    /\ df_league_raw.tbl[2].SEASON = season_str(FirstYear + 1)
    /\ df_league_raw.tbl[2].fga["Restricted Area"] = Num(MaxFga)
    /\ df_league.some
    /\ Len(df_league.tbl) > 0
    /\ \A i \in 1..Len(df_league.tbl) :
          df_league.tbl[i].SEASON = season_str(FirstYear + 1)

\* C13: every attempts value normalization produces is >= 0: the per-team
\* records of league normalization, its aggregated per-season rows, and the
\* rows of player normalization.
C13_AttemptsNonNegative ==
    /\ (LeagueDone /\ df_league_raw.some) =>
          /\ LET recs == LeagueRecords(df_league_raw.tbl) IN
                \A i \in 1..Len(recs) : recs[i].FGA >= 0
          /\ df_league.some =>
                \A i \in 1..Len(df_league.tbl) :
                    df_league.tbl[i].FGA >= 0 /\ df_league.tbl[i].TOTAL_FGA_SEASON >= 0
    /\ (PlayerDone /\ df_players.some) =>
          \A i \in 1..Len(df_players.tbl) : df_players.tbl[i].FGA >= 0

C13_Witness ==
    /\ LeagueDone
    /\ df_league_raw.some
    /\ Len(df_league_raw.tbl) = 2
    /\ \A i \in 1..2 : /\ ~IsHeaderRow(df_league_raw.tbl[i])
                        /\ df_league_raw.tbl[i].SEASON = season_str(FirstYear)
    /\ df_league_raw.tbl[1].fga["Restricted Area"] = Num(-1)
    /\ df_league_raw.tbl[2].fga["Restricted Area"] = Num(-1)
    /\ df_league_raw.tbl[1].fga["Above the Break 3"] = Num(-1)
    /\ df_league_raw.tbl[2].fga["Above the Break 3"] = Num(MaxFga)
    /\ df_league.some
    /\ Len(df_league.tbl) = 1
    /\ df_league.tbl[1].FGA = MaxFga

(* ================== properties: helpers called on their own ============ *)
Returned(f) == pc = "returned" /\ call.fn = f

\* C14 as stated: get_season_list fails with InvalidRangeError when
\* end < start.
C14_InvalidRangeFails ==
    (Returned("get_season_list") /\ call.args[2] < call.args[1]) =>
        ret.exc = "InvalidRangeError"

\* the starting year a season label shows before its hyphen
StartYearOf(label) ==
    LET k == CHOOSE j \in 1..Len(label) : label[j] = "-" /\ \A h \in 1..(j - 1) : label[h] # "-"
    IN int(SubSeq(label, 1, k - 1))

\* C15: for start <= end, get_season_list returns end - start + 1 labels,
\* the i-th (from 0) being season_str(start + i): both ends are included and
\* the starting years increase strictly; get_season_list(2000, 2002) is
\* ["2000-01", "2001-02", "2002-03"].
C15_SeasonListInclusive ==
    (Returned("get_season_list") /\ call.args[1] <= call.args[2]) =>
        LET start == call.args[1]
            end == call.args[2]
            out == ret.val
        IN /\ ret.exc = ""
           /\ Len(out) = end - start + 1
           /\ \A i \in 1..Len(out) :
                 /\ out[i] = season_str(start + i - 1)
                 /\ StartYearOf(out[i]) = start + i - 1
           /\ StartYearOf(out[1]) = start
           /\ StartYearOf(out[Len(out)]) = end
           /\ \A i \in 1..(Len(out) - 1) : StartYearOf(out[i]) < StartYearOf(out[i + 1])
           /\ (start = 2000 /\ end = 2002) =>
                 out = << <<"2", "0", "0", "0", "-", "0", "1">>,
                          <<"2", "0", "0", "1", "-", "0", "2">>,
                          <<"2", "0", "0", "2", "-", "0", "3">> >>

C15_Witness ==
    /\ Returned("get_season_list")
    /\ call.args = <<2000, 2002>>
    /\ Len(ret.val) = 3
    /\ ret.val[3] = <<"2", "0", "0", "2", "-", "0", "3">>

\* n % 100 written with two digits
TwoDigits(n) == <<DigitChar[((n % 100) \div 10) + 1], DigitChar[(n % 10) + 1]>>

BelowHalfCourt(t, s) == {i \in 1..Len(t) : t[i].SEASON = s /\ t[i].LOC_Y < 420}

\* the k-th of them, counting from the start of the table
KthBelow(t, s, k) ==
    CHOOSE i \in BelowHalfCourt(t, s) :
        Cardinality({j \in BelowHalfCourt(t, s) : j <= i}) = k

\* C17: the shot chart keeps exactly the events of the selected season whose
\* LOC_Y is below 420, in their original order, and drops the others (no
\* chart at all when the season has no event); of two events at 430 and 100
\* only the one at 100 is retained.
C17_HalfCourtFilter ==
    Returned("create_shot_chart") =>
        LET t == call.args[1]
            s == call.args[2]
            kept == IF ret.val.some THEN ret.val.tbl ELSE <<>>
        IN /\ ret.exc = ""
           /\ ret.val.some <=> (\E i \in 1..Len(t) : t[i].SEASON = s)
           /\ ret.val.some =>
                 /\ Len(kept) = Cardinality(BelowHalfCourt(t, s))
                 /\ \A k \in 1..Len(kept) : kept[k] = t[KthBelow(t, s, k)]
           /\ (Len(t) = 2 /\ t[1].SEASON = s /\ t[2].SEASON = s
                  /\ t[1].LOC_Y = 430 /\ t[2].LOC_Y = 100)
                 => kept = <<t[2]>>

C17_Witness ==
    /\ Returned("create_shot_chart")
    /\ Len(call.args[1]) = 3
    /\ \A i \in 1..3 : call.args[1][i].SEASON = call.args[2]
    /\ call.args[1][1].LOC_Y = 419
    /\ call.args[1][2].LOC_Y = 420
    /\ call.args[1][3].LOC_Y = 100
    /\ ret.val.some
    /\ Len(ret.val.tbl) = 2
    /\ ret.val.tbl[1].LOC_Y = 419
    /\ ret.val.tbl[2].LOC_Y = 100

\* two coordinates agree within a tenth of a court unit
Near(a, b) == a - b \in -10..10

\* the point lies on the circle of radius 237.5 about the origin, within a
\* tenth of a court unit
OnArcCircle(x, y) ==
    x * x + y * y - ArcRadius * ArcRadius \in (0 - 20 * ArcRadius)..(20 * ArcRadius)

\* 20 segments, each starting where the previous one ends, every endpoint on
\* the circle
ArcIsConnectedOnCircle(arc) ==
    /\ Len(arc) = 20
    /\ \A i \in 1..(Len(arc) - 1) : arc[i].x2 = arc[i + 1].x1 /\ arc[i].y2 = arc[i + 1].y1
    /\ \A i \in 1..Len(arc) :
          OnArcCircle(arc[i].x1, arc[i].y1) /\ OnArcCircle(arc[i].x2, arc[i].y2)

AtReturn(d) ==
    CASE d = "league" -> pc = "process_league"
      [] d = "player" -> pc = "process_player"
      [] d = "curry" -> pc = "render"

\* what that load returned
Loaded(d) ==
    CASE d = "league" -> df_league_raw
      [] d = "player" -> df_players_raw
      [] d = "curry" -> df_curry_shots

\* C19 as stated: the presence of the cache file alone decides a load: with
\* the file present the load returns the file's table and makes no upstream
\* call, and with the file absent it starts the upstream fetch.
C19_FilePresenceDecides ==
    \A d \in Datasets :
        AtReturn(d) =>
            IF served[d].file_existed
            THEN Loaded(d) = files[d] /\ served[d].how # "fetch"
            ELSE served[d].how = "fetch"

(* ================= properties: normalization and its input ============= *)
RawPlayerColumns == {"PLAYER_NAME", "SEASON_ID", "SHOT_ZONE_BASIC", "FGA", "FGM"}

\* C20: league and player normalization leave the table passed to them as
\* it was: the same rows and the same columns after the call (the player
\* table keeps SEASON_ID and gets no total or share column), and the result
\* is another table, with the new columns.
C20_InputUnchanged ==
    /\ LeagueDone =>
          /\ df_league_raw = call.args[1]
          /\ df_league.some =>
                \A i \in 1..Len(df_league.tbl) :
                    DOMAIN df_league.tbl[i] =
                        {"SEASON", "SHOT_ZONE_BASIC", "FGA", "TOTAL_FGA_SEASON",
                         "FGA_SHARE"}
    /\ PlayerDone =>
          /\ df_players_raw = call.args[1]
          /\ df_players_raw.some =>
                /\ df_players.some
                /\ Len(df_players.tbl) = Len(df_players_raw.tbl)
                /\ \A i \in 1..Len(df_players_raw.tbl) :
                      /\ DOMAIN df_players_raw.tbl[i] = RawPlayerColumns
                      /\ DOMAIN df_players.tbl[i] =
                            (RawPlayerColumns \ {"SEASON_ID"}) \cup
                            {"SEASON", "TOTAL_FGA_PLAYER_SEASON", "FGA_SHARE"}

C20_Witness ==
    /\ PlayerDone
    /\ call.fn = "process_player_data"
    /\ call.args[1].some
    /\ Len(call.args[1].tbl) = 2
    /\ df_players_raw = call.args[1]
    /\ df_players.some
    /\ Len(df_players.tbl) = 2
    /\ df_players.tbl[1].SEASON = df_players_raw.tbl[1].SEASON_ID
    /\ df_players.tbl[1].TOTAL_FGA_PLAYER_SEASON > 0

(* ===================== properties: shot statistics ===================== *)
\* the rows of season s, those of them made, and the same among 3-pointers
SeasonShots(t, s) == {i \in 1..Len(t) : t[i].SEASON = s}
ThreeShots(t, s) == {i \in SeasonShots(t, s) : t[i].SHOT_TYPE = "3PT Field Goal"}
MadeOf(t, I) == {i \in I : t[i].SHOT_MADE_FLAG = 1}

\* the percentage is made / total (times 100), 0 when total is 0, and lies
\* between 0 and 100
IsPctOf(q, made, total) ==
    /\ made <= total
    /\ q.den > 0
    /\ IF total = 0 THEN q.num = 0 ELSE q.num * total = 100 * made * q.den
    /\ 0 <= q.num /\ q.num <= 100 * q.den

\* C21: the statistics of the selected season give made / total as the
\* shooting percentage, 0 when total is 0, over all shots of the season and
\* separately over its 3-point attempts; made <= total and the percentage
\* lies between 0 and 100 in both cases.
C21_ShootingPercentages ==
    (Returned("shot_statistics") /\ ret.val.shown) =>
        LET t == call.args[1]
            s == call.args[2]
            v == ret.val
        IN /\ ret.exc = ""
           /\ v.total = Cardinality(SeasonShots(t, s))
           /\ v.made = Cardinality(MadeOf(t, SeasonShots(t, s)))
           /\ IsPctOf(v.fg_pct, v.made, v.total)
           /\ v.three_pt_total = Cardinality(ThreeShots(t, s))
           /\ v.three_pt_made = Cardinality(MadeOf(t, ThreeShots(t, s)))
           /\ IsPctOf(v.three_pt_pct, v.three_pt_made, v.three_pt_total)

C21_Witness ==
    /\ Returned("shot_statistics")
    /\ ret.val.shown
    /\ ret.val.total = 2
    /\ ret.val.made = 1
    /\ ret.val.fg_pct = [num |-> 100, den |-> 2]
    /\ ret.val.three_pt_total = 0
    /\ ret.val.three_pt_pct = [num |-> 0, den |-> 1]

(* ===================== properties: trend comparison ==================== *)
CurryRows(t) == SelectSeq(t, LAMBDA r : r.PLAYER_NAME = "Stephen Curry")

\* the traces the comparison chart is to hold: the league, Curry when the
\* table has rows for him, then the selected players that have rows
ExpectedTraces(t, selected) ==
    <<"League Average">>
    \o (IF Len(CurryRows(t)) > 0 THEN <<"Stephen Curry">> ELSE <<>>)
    \o SelectSeq(selected,
                 LAMBDA n : /\ n # "Stephen Curry"
                            /\ \E i \in 1..Len(t) : t[i].PLAYER_NAME = n)

\* C22 as stated: once the page has rendered with a league table and a
\* non-empty player table, the comparison chart was built without an
\* exception, and for every selection of comparison players its traces are
\* the league, Curry only if the table has rows for him, and the selected
\* players; a table without Curry rows only omits the Curry trace.
C22_TrendChartCompletes ==
    (Rendered /\ df_league.some /\ df_players.some /\ Len(df_players.tbl) > 0) =>
        /\ ~raised
        /\ view.chart2 = "chart"
        /\ \A c \in SUBSET AvailableStars :
             LET selected == SelectSeq(AllPlayerNames, LAMBDA n : n \in c)
                 fig2 == create_trend_comparison_chart(df_league.tbl, df_players.tbl,
                                                       selected)
             IN /\ ~fig2.raised
                /\ fig2.traces = ExpectedTraces(df_players.tbl, selected)

\* the failing case is reached: a rendered page whose player table has rows,
\* none of them Curry's
C22_NoCurryRendered ==
    /\ Rendered /\ df_league.some /\ df_players.some
    /\ Len(df_players.tbl) > 0 /\ Len(CurryRows(df_players.tbl)) = 0

(* ====================== properties: 3-point line ======================= *)
\* the upper end of a straight corner part
CornerTop(l) == [x |-> l.x2, y |-> l.y2]

\* C23 as stated: the drawn 3-point line is one connected polyline: the
\* upper ends of the two straight corner parts are (-220, 87.5) and
\* (220, 87.5), the arc's last and first points coincide with them, and they
\* lie on the circle of radius 237.5 about the origin.
C23_ThreePointLineConnected ==
    Returned("three_point_line") =>
        LET left == CornerTop(ret.val.straight[1])
            right == CornerTop(ret.val.straight[2])
            arc == ret.val.arc
        IN /\ left = [x |-> 0 - 22000, y |-> 8750]
           /\ right = [x |-> 22000, y |-> 8750]
           /\ Near(arc[1].x1, right.x) /\ Near(arc[1].y1, right.y)
           /\ Near(arc[Len(arc)].x2, left.x) /\ Near(arc[Len(arc)].y2, left.y)
           /\ OnArcCircle(left.x, left.y)
           /\ OnArcCircle(right.x, right.y)

\* what the drawing has instead: the corner parts end at (-220, 87.5) and
\* (220, 87.5), inside the circle, and the arc ends about two court units
\* above them
C23_GapAtCornerTops ==
    /\ Returned("three_point_line")
    /\ CornerTop(ret.val.straight[2]) = [x |-> 22000, y |-> 8750]
    /\ ret.val.arc[1].x1 = 22000
    /\ ret.val.arc[1].y1 - 8750 \in 150..250
    /\ ~OnArcCircle(22000, 8750)

====
